---------------------------- MODULE Spec2Model ----------------------------
(***************************************************************************)
(* Model of rss-sp (src/app.py): the /feed.xml handler with its in-memory  *)
(* and on-disk cache, and the pipeline behind it (merge / dedup, sort,     *)
(* recency filter, cap, keyword filter, rendering).                        *)
(*                                                                         *)
(* Three specifications share the module:                                  *)
(*   Spec      requests handled one after the other (feed is one action)   *)
(*   SpecConc  overlapping requests, feed split at its shared accesses     *)
(*   SpecPipe  fetch_all_sources and build_feed applied to bounded inputs  *)
(***************************************************************************)
EXTENDS Integers, Sequences, FiniteSets, TLC

VARIABLES
    CACHE,        \* app.py:41  CACHE = {"feed": ..., "ts": ...}
    disk,         \* content of DISK_CACHE_FILE (app.py:43)
    clock,        \* time.time() / datetime.now() as last read
    log,          \* Spec: one record per handled request, oldest first
    pc,           \* SpecConc: where each request is inside feed()
    req,          \* SpecConc: each request's locals (now, rss, disk, resp)
    writes,       \* SpecConc: the latest CACHE["feed"] write (document, writer's now)
    peak,         \* SpecConc: most requests seen regenerating at the same time
    utcnow,       \* SpecPipe: datetime.now(timezone.utc), in days
    combined,     \* SpecPipe: concatenated source items (app.py:223-238)
    INCLUDE_KEYWORDS,   \* app.py:29
    EXCLUDE_KEYWORDS,   \* app.py:30
    ppc,          \* SpecPipe: "input" | "built"
    dedup,        \* SpecPipe: the merged mapping (app.py:241-249)
    news_items,   \* SpecPipe: what fetch_all_sources returned
    feedEntries   \* SpecPipe: the entries build_feed added, in add_entry order

vars == <<CACHE, disk, clock, log, pc, req, writes, peak, utcnow, combined,
          INCLUDE_KEYWORDS, EXCLUDE_KEYWORDS, ppc, dedup, news_items, feedEntries>>

cacheVars == <<CACHE, disk, clock, log>>
concVars  == <<pc, req, writes, peak>>
pipeVars  == <<utcnow, combined, INCLUDE_KEYWORDS, EXCLUDE_KEYWORDS, ppc, dedup,
               news_items, feedEntries>>

(***************************************************************************)
(* Values                                                                  *)
(***************************************************************************)
None  == "None"          \* Python None (also: no file on disk)
Raise == "Raise"         \* an exception propagating out of a call
Empty == ""              \* b"" : an empty file / empty body
NotRead == "NotRead"     \* read_disk_cache was not called

\* Python truthiness of an Optional[bytes]
Truthy(x) == x # None /\ x # Empty

CACHE_TTL == 600

\* Documents build_feed may return (rss_str is never empty), and a document
\* an earlier process may have left on disk.
Docs     == {"D1", "D2"}
OldDoc   == "D0"

RSS  == "application/rss+xml"
TEXT == "text/plain"
ErrorBody == "Erro ao gerar feed"

Response(body, mimetype) == [body |-> body, mimetype |-> mimetype]

(***************************************************************************)
(* Disk cache                                                              *)
(***************************************************************************)
\* read_disk_cache: the file's bytes, or None when open/read raises.
read_disk_cache(d) == IF d = None THEN {None} ELSE {d, None}

\* write_disk_cache: the file after the call.  open() may fail (file
\* untouched), or succeed (truncating) with the write failing (empty file).
write_disk_cache(d, data) == {data, d, Empty}

(***************************************************************************)
(* feed(): the pieces of the handler                                       *)
(***************************************************************************)
\* app.py:357
CacheValid_Le(C, now) == Truthy(C.feed) /\ (now - C.ts <= CACHE_TTL)

CacheValid(C, now) == Truthy(C.feed) /\ (now - C.ts < CACHE_TTL)

\* app.py:363
WriteFeed_FirstWins(C, rss) == IF Truthy(C.feed) THEN C ELSE [C EXCEPT !.feed = rss]

WriteFeed(C, rss) == [C EXCEPT !.feed = rss]

\* app.py:364
WriteTs(C, now) == [C EXCEPT !.ts = now]

\* app.py:363-364
StoreFeed(C, rss, now) == WriteTs(WriteFeed(C, rss), now)

\* app.py:367-376, the except branch; dsk is what read_disk_cache returns
\* (it is only called when the memory cache holds nothing).
ExceptFallback_DropsStale(C, dsk, now) ==
    IF Truthy(dsk)
    THEN [cache |-> [feed |-> dsk, ts |-> now], resp |-> Response(dsk, RSS), dsk |-> dsk]
    ELSE [cache |-> [feed |-> None, ts |-> C.ts], resp |-> Response(ErrorBody, TEXT), dsk |-> dsk]

ExceptFallback_ClearsCache(C, dsk, now) ==
    IF Truthy(C.feed)
    THEN [cache |-> [feed |-> None, ts |-> C.ts], resp |-> Response(C.feed, RSS), dsk |-> NotRead]
    ELSE IF Truthy(dsk)
         THEN [cache |-> [feed |-> dsk, ts |-> now], resp |-> Response(dsk, RSS), dsk |-> dsk]
         ELSE [cache |-> C, resp |-> Response(ErrorBody, TEXT), dsk |-> dsk]

ExceptFallback_NoTruthTest(C, dsk, now) ==
    IF Truthy(C.feed)
    THEN [cache |-> C, resp |-> Response(C.feed, RSS), dsk |-> NotRead]
    ELSE IF dsk # None
         THEN [cache |-> [feed |-> dsk, ts |-> now], resp |-> Response(dsk, RSS), dsk |-> dsk]
         ELSE [cache |-> C, resp |-> Response(ErrorBody, TEXT), dsk |-> dsk]

ExceptFallback(C, dsk, now) ==
    IF Truthy(C.feed)
    THEN [cache |-> C, resp |-> Response(C.feed, RSS), dsk |-> NotRead]
    ELSE IF Truthy(dsk)
         THEN [cache |-> [feed |-> dsk, ts |-> now], resp |-> Response(dsk, RSS), dsk |-> dsk]
         ELSE [cache |-> C, resp |-> Response(ErrorBody, TEXT), dsk |-> dsk]

(***************************************************************************)
(* Spec: requests one after the other                                      *)
(***************************************************************************)
MaxRequests == 3
Times == {0, 300, 599, 600, 700, 1300}

\* What build_feed() does for one request: a document, or an exception.
BuildOutcomes == Docs \cup {Raise}

InitCache ==
    /\ CACHE = [feed |-> None, ts |-> 0]
    /\ disk \in {None, Empty, OldDoc}
    /\ clock = 0
    /\ log = <<>>

IdleConc ==
    /\ pc = <<>>
    /\ req = <<>>
    /\ writes = <<>>
    /\ peak = 0

IdlePipe ==
    /\ utcnow = 0
    /\ combined = <<>>
    /\ INCLUDE_KEYWORDS = <<>>
    /\ EXCLUDE_KEYWORDS = <<>>
    /\ ppc = "off"
    /\ dedup = [raised |-> FALSE, val |-> <<>>]
    /\ news_items = [raised |-> FALSE, val |-> <<>>]
    /\ feedEntries = [raised |-> FALSE, val |-> <<>>]

Init == InitCache /\ IdleConc /\ IdlePipe

\* What one request saw and did: the clock it read, the cache and the file
\* before it, whether it ran build_feed and with what outcome, what
\* read_disk_cache returned, its response, and the cache after it.
LogEntry(now, pre, ran, built, rd, resp, post) ==
    [t |-> now, pre |-> pre, preDisk |-> disk, ran |-> ran, built |-> built,
     dsk |-> rd, resp |-> resp, post |-> post]

\* app.py:346-376  one whole request
feed ==
    /\ Len(log) < MaxRequests
    /\ \E now \in Times :
         /\ now >= clock
         /\ clock' = now
         /\ IF CacheValid(CACHE, now)
            THEN /\ UNCHANGED <<CACHE, disk>>
                 /\ log' = Append(log, LogEntry(now, CACHE, FALSE, None, NotRead,
                                                Response(CACHE.feed, RSS), CACHE))
            ELSE \E rss \in BuildOutcomes :
                   IF rss # Raise
                   THEN /\ CACHE' = StoreFeed(CACHE, rss, now)
                        /\ disk' \in write_disk_cache(disk, rss)
                        /\ log' = Append(log, LogEntry(now, CACHE, TRUE, rss, NotRead,
                                                       Response(rss, RSS), CACHE'))
                   ELSE \E dsk \in read_disk_cache(disk) :
                          LET fb == ExceptFallback(CACHE, dsk, now)
                          IN /\ CACHE' = fb.cache
                             /\ UNCHANGED disk
                             /\ log' = Append(log, LogEntry(now, CACHE, TRUE, Raise,
                                                            fb.dsk, fb.resp, CACHE'))
    /\ UNCHANGED concVars
    /\ UNCHANGED pipeVars

Next == feed

Spec == Init /\ [][Next]_vars


(***************************************************************************)
(* Claims on the handler (checked under Spec)                              *)
(***************************************************************************)
\* C1: a request that finds a document in the cache with now - ts < 600 is
\* answered with exactly that document, does not run the pipeline and leaves
\* the cache as it was; every other request attempts regeneration.  With a
\* first request at t=0 answered with a document, a request at t=300 gets
\* the identical document without regeneration and one at t=700 regenerates.
C1_FreshServedStaleRegenerates ==
    /\ \A i \in DOMAIN log :
         LET e == log[i]
         IN IF e.pre.feed \notin {None, Empty} /\ e.t - e.pre.ts < 600
            THEN /\ e.resp = [body |-> e.pre.feed, mimetype |-> RSS]
                 /\ ~e.ran
                 /\ e.post = e.pre
            ELSE e.ran
    /\ (/\ Len(log) >= 3
        /\ log[1].t = 0 /\ log[2].t = 300 /\ log[3].t = 700
        /\ log[1].resp.mimetype = RSS)
       => /\ log[1].ran
          /\ ~log[2].ran /\ log[2].resp = log[1].resp
          /\ log[3].ran

C1_Witness ==
    /\ Len(log) = 3
    /\ log[1].t = 0 /\ log[2].t = 300 /\ log[3].t = 700
    /\ log[1].pre.feed = None /\ log[1].built = "D1"
    /\ ~log[2].ran /\ log[2].resp.body = "D1"
    /\ log[3].built = "D2" /\ CACHE = [feed |-> "D2", ts |-> 700]

\* C2: when the cache holds a document D and the regeneration a request
\* attempts raises, the request is answered with D as an RSS document and
\* the cached document and timestamp stay as they were.
C2_StaleServedOnFailure ==
    \A i \in DOMAIN log :
      LET e == log[i]
      IN (e.pre.feed \notin {None, Empty} /\ e.ran /\ e.built = Raise)
         => /\ e.resp = [body |-> e.pre.feed, mimetype |-> RSS]
            /\ e.post = e.pre

C2_Witness ==
    \E i \in DOMAIN log :
      /\ log[i].pre.feed = "D1" /\ log[i].built = Raise
      /\ log[i].t - log[i].pre.ts >= 600
      /\ log[i].resp.body = "D1" /\ CACHE.feed = "D1"

\* C3: once a request has been answered with an RSS document, no later
\* request is answered with the plain-text error or an empty body, and a
\* cache that holds a document holds one after every later request.
C3_NeverErrorAfterDocument ==
    /\ \A i, j \in DOMAIN log :
         (i < j /\ log[i].resp.mimetype = RSS)
         => /\ log[j].resp.mimetype = RSS
            /\ log[j].resp.body \notin {None, Empty, ErrorBody}
    /\ \A i \in DOMAIN log :
         /\ log[i].pre.feed \notin {None, Empty} => log[i].post.feed \notin {None, Empty}
         /\ log[i].resp.mimetype = RSS => log[i].post.feed \notin {None, Empty}
    /\ (log # <<>>) => CACHE = log[Len(log)].post

C3_Witness ==
    /\ Len(log) = 3
    /\ log[1].resp.mimetype = RSS
    /\ log[2].built = Raise /\ log[2].resp.mimetype = RSS
    /\ log[3].built = Raise /\ log[3].resp.mimetype = RSS
    /\ log[3].preDisk \in {None, Empty}

\* C4: when the cache holds no document and regeneration raises, the
\* handler reads the file: a non-empty content read is the response (RSS);
\* a missing, unreadable or empty file gives the plain-text error and the
\* cache still holds no document.
C4_ColdFailureFallsBackToDisk ==
    \A i \in DOMAIN log :
      LET e == log[i]
      IN (e.pre.feed = None /\ e.ran /\ e.built = Raise)
         => /\ e.dsk \in {e.preDisk, None}
            /\ IF e.dsk \notin {None, Empty}
               THEN e.resp = [body |-> e.preDisk, mimetype |-> RSS]
               ELSE /\ e.resp = [body |-> ErrorBody, mimetype |-> TEXT]
                    /\ e.post.feed = None

C4_Witness ==
    /\ Len(log) >= 2
    /\ log[1].pre.feed = None /\ log[1].built = Raise
    /\ log[1].preDisk = OldDoc /\ log[1].dsk = None
    /\ log[1].resp = [body |-> ErrorBody, mimetype |-> TEXT]
    /\ log[2].pre.feed = None /\ log[2].built = Raise /\ log[2].dsk = OldDoc
    /\ log[2].resp = [body |-> OldDoc, mimetype |-> RSS]

(***************************************************************************)
(* SpecConc: overlapping requests.  Each worker thread runs feed() again   *)
(* and again; feed() is split where it reads or writes CACHE or the file,  *)
(* since nothing in app.py serialises these accesses.                      *)
(***************************************************************************)
NumWorkers == 2
Workers == 1..NumWorkers
ConcTimes == {0, 600}

NoWrite == [doc |-> None, now |-> -1]

\* A request's locals: now, rss, disk; its response; and, for the check,
\* the CACHE["feed"] write that was the latest when it read the cache.
BlankReq == [now |-> 0, rss |-> None, dsk |-> None, saw |-> NoWrite, resp |-> None]

Regenerating(r) == pc[r] \in {"build", "store_feed", "store_ts", "store_disk"}

Finished(r) == pc[r] \in {"idle", "done_hit", "done_built", "done_stale",
                          "done_disk", "done_error"}

\* requests regenerating once r has joined them
Joined(r) == Cardinality({q \in Workers : Regenerating(q)} \cup {r})

InitConc ==
    /\ CACHE = [feed |-> None, ts |-> 0]
    /\ disk \in {None, OldDoc}
    /\ clock = 0
    /\ log = <<>>
    /\ pc = [r \in Workers |-> "idle"]
    /\ req = [r \in Workers |-> BlankReq]
    /\ writes = NoWrite
    /\ peak = 0
    /\ IdlePipe

\* app.py:354  now = time.time()
Arrive(r) ==
    /\ Finished(r)
    /\ \E now \in ConcTimes :
         /\ now >= clock
         /\ clock' = now
         /\ req' = [req EXCEPT ![r] = [BlankReq EXCEPT !.now = now]]
    /\ pc' = [pc EXCEPT ![r] = "check_feed"]
    /\ UNCHANGED <<CACHE, disk, log, writes, peak>>

\* app.py:357  left operand: CACHE["feed"]
CheckFeed(r) ==
    /\ pc[r] = "check_feed"
    /\ pc' = [pc EXCEPT ![r] = IF Truthy(CACHE.feed) THEN "check_ts" ELSE "build"]
    /\ peak' = IF ~Truthy(CACHE.feed) /\ Joined(r) > peak THEN Joined(r) ELSE peak
    /\ UNCHANGED <<CACHE, disk, clock, log, req, writes>>

\* app.py:357  right operand: now - CACHE["ts"] < CACHE_TTL
CheckTs(r) ==
    /\ pc[r] = "check_ts"
    /\ LET hit == req[r].now - CACHE.ts < CACHE_TTL
       IN /\ pc' = [pc EXCEPT ![r] = IF hit THEN "return_cached" ELSE "build"]
          /\ peak' = IF ~hit /\ Joined(r) > peak THEN Joined(r) ELSE peak
    /\ UNCHANGED <<CACHE, disk, clock, log, req, writes>>

\* app.py:358  return Response(CACHE["feed"], ...)
ReturnCached(r) ==
    /\ pc[r] = "return_cached"
    /\ req' = [req EXCEPT ![r].resp = Response(CACHE.feed, RSS), ![r].saw = writes]
    /\ pc' = [pc EXCEPT ![r] = "done_hit"]
    /\ UNCHANGED <<CACHE, disk, clock, log, writes, peak>>

\* app.py:361  rss = build_feed(), which may raise
Build(r) ==
    /\ pc[r] = "build"
    /\ \E rss \in BuildOutcomes :
         /\ req' = [req EXCEPT ![r].rss = rss]
         /\ pc' = [pc EXCEPT ![r] = IF rss # Raise THEN "store_feed" ELSE "except"]
    /\ UNCHANGED <<CACHE, disk, clock, log, writes, peak>>

\* app.py:363  CACHE["feed"] = rss
StoreFeedStep(r) ==
    /\ pc[r] = "store_feed"
    /\ CACHE' = WriteFeed(CACHE, req[r].rss)
    /\ writes' = [doc |-> req[r].rss, now |-> req[r].now]
    /\ pc' = [pc EXCEPT ![r] = "store_ts"]
    /\ UNCHANGED <<disk, clock, log, req, peak>>

\* app.py:364  CACHE["ts"] = now
StoreTsStep(r) ==
    /\ pc[r] = "store_ts"
    /\ CACHE' = WriteTs(CACHE, req[r].now)
    /\ pc' = [pc EXCEPT ![r] = "store_disk"]
    /\ UNCHANGED <<disk, clock, log, req, writes, peak>>

\* app.py:365-366  write_disk_cache(rss); return Response(rss, ...)
StoreDiskReturn(r) ==
    /\ pc[r] = "store_disk"
    /\ disk' \in write_disk_cache(disk, req[r].rss)
    /\ req' = [req EXCEPT ![r].resp = Response(req[r].rss, RSS)]
    /\ pc' = [pc EXCEPT ![r] = "done_built"]
    /\ UNCHANGED <<CACHE, clock, log, writes, peak>>

\* app.py:369  if CACHE["feed"]:
ExceptCheck(r) ==
    /\ pc[r] = "except"
    /\ pc' = [pc EXCEPT ![r] = IF Truthy(CACHE.feed) THEN "return_stale" ELSE "read_disk"]
    /\ UNCHANGED <<CACHE, disk, clock, log, req, writes, peak>>

\* app.py:370  return Response(CACHE["feed"], ...)
ReturnStale(r) ==
    /\ pc[r] = "return_stale"
    /\ req' = [req EXCEPT ![r].resp = Response(CACHE.feed, RSS), ![r].saw = writes]
    /\ pc' = [pc EXCEPT ![r] = "done_stale"]
    /\ UNCHANGED <<CACHE, disk, clock, log, writes, peak>>

\* app.py:371-372, 376  disk = read_disk_cache(); if disk: ... else the error
ReadDisk(r) ==
    /\ pc[r] = "read_disk"
    /\ \E dsk \in read_disk_cache(disk) :
         IF Truthy(dsk)
         THEN /\ req' = [req EXCEPT ![r].dsk = dsk]
              /\ pc' = [pc EXCEPT ![r] = "disk_feed"]
         ELSE /\ req' = [req EXCEPT ![r].resp = Response(ErrorBody, TEXT)]
              /\ pc' = [pc EXCEPT ![r] = "done_error"]
    /\ UNCHANGED <<CACHE, disk, clock, log, writes, peak>>

\* app.py:373  CACHE["feed"] = disk
DiskFeedStep(r) ==
    /\ pc[r] = "disk_feed"
    /\ CACHE' = WriteFeed(CACHE, req[r].dsk)
    /\ writes' = [doc |-> req[r].dsk, now |-> req[r].now]
    /\ pc' = [pc EXCEPT ![r] = "disk_ts"]
    /\ UNCHANGED <<disk, clock, log, req, peak>>

\* app.py:374-375  CACHE["ts"] = now; return Response(disk, ...)
DiskTsReturn(r) ==
    /\ pc[r] = "disk_ts"
    /\ CACHE' = WriteTs(CACHE, req[r].now)
    /\ req' = [req EXCEPT ![r].resp = Response(req[r].dsk, RSS)]
    /\ pc' = [pc EXCEPT ![r] = "done_disk"]
    /\ UNCHANGED <<disk, clock, log, writes, peak>>

NextConc ==
    \E r \in Workers :
        \/ Arrive(r) /\ UNCHANGED pipeVars
        \/ CheckFeed(r) /\ UNCHANGED pipeVars
        \/ CheckTs(r) /\ UNCHANGED pipeVars
        \/ ReturnCached(r) /\ UNCHANGED pipeVars
        \/ Build(r) /\ UNCHANGED pipeVars
        \/ StoreFeedStep(r) /\ UNCHANGED pipeVars
        \/ StoreTsStep(r) /\ UNCHANGED pipeVars
        \/ StoreDiskReturn(r) /\ UNCHANGED pipeVars
        \/ ExceptCheck(r) /\ UNCHANGED pipeVars
        \/ ReturnStale(r) /\ UNCHANGED pipeVars
        \/ ReadDisk(r) /\ UNCHANGED pipeVars
        \/ DiskFeedStep(r) /\ UNCHANGED pipeVars
        \/ DiskTsReturn(r) /\ UNCHANGED pipeVars

SpecConc == InitConc /\ [][NextConc]_vars

\* C10: nothing keeps two requests from regenerating at once, and the
\* document the cache holds, hence the one a request served from the cache
\* gets, is the one of the latest CACHE["feed"] write, whichever request
\* made it and whatever timestamp the cache carries.
C10_LastWriterServed ==
    /\ writes # NoWrite => CACHE.feed = writes.doc
    /\ \A r \in Workers :
         pc[r] \in {"done_hit", "done_stale"}
         => /\ req[r].saw # NoWrite
            /\ req[r].resp = [body |-> req[r].saw.doc, mimetype |-> RSS]

\* Two requests regenerated at once and both succeeded; the request that
\* arrived at t=0 wrote its document last, the one that arrived at t=600
\* wrote its timestamp last; a later request is served the former's document.
C10_Witness ==
    /\ peak >= 2
    /\ \A r \in Workers : Finished(r)
    /\ pc[1] = "done_hit" /\ req[1].now = 600
    /\ req[1].resp = [body |-> "D1", mimetype |-> RSS]
    /\ pc[2] = "done_built" /\ req[2].rss = "D2" /\ req[2].now = 600
    /\ writes = [doc |-> "D1", now |-> 0]
    /\ CACHE = [feed |-> "D1", ts |-> 600]

(***************************************************************************)
(* The pipeline: values                                                    *)
(*                                                                         *)
(* Text is a sequence of characters.  A URL is a positive number, 0 when   *)
(* the field is absent or empty.  Dates are in days.  A call that may      *)
(* raise returns [raised, val].                                            *)
(***************************************************************************)
MIN_ITEMS   == 10
RECENT_DAYS == 180
FEED_CAP    == 100
NEWS_PAGE   == 9999      \* the URL of app.py:15

Ok(v)  == [raised |-> FALSE, val |-> v]
Raised == [raised |-> TRUE, val |-> <<>>]

SemTitulo   == <<"S","e","m"," ","t","í","t","u","l","o">>
SemNoticias == <<"S","e","m"," ","n","o","t","í","c","i","a","s">>
NenhumItem  == <<"N","e","n","h","u","m"," ","i","t","e","m">>

\* item["title"]: a str, a dict (text: its "pt_BR", empty when missing),
\* or anything else
TitleStr(text)  == [kind |-> "str", text |-> text]
TitleDict(text) == [kind |-> "dict", text |-> text]
TitleAbsent     == [kind |-> "other", text |-> <<>>]

\* item["datePublished"]: missing / empty / not ISO, an ISO string with a
\* UTC offset, or an ISO string without one
NoDate   == [kind |-> "none", t |-> 0]
Aware(t) == [kind |-> "aware", t |-> t]
Naive(t) == [kind |-> "naive", t |-> t]

Item(title, url, date, fields) ==
    [title |-> title, contentUrl |-> url, datePublished |-> date,
     contentFields |-> fields]

\* app.py:48-55
safe_title(item) ==
    IF item.title.kind = "dict"
    THEN (IF item.title.text # <<>> THEN item.title.text ELSE SemTitulo)
    ELSE IF item.title.kind = "str" THEN item.title.text
    ELSE SemTitulo

\* app.py:58-67  a datetime: its instant, and whether it carries a tzinfo
safe_date(pub_date, now) ==
    IF pub_date.kind = "none"
    THEN [tz |-> TRUE, t |-> now]
    ELSE [tz |-> (pub_date.kind = "aware"), t |-> pub_date.t]

\* Comparing an offset-naive with an offset-aware datetime raises TypeError.
Comparable(a, b) == a.tz = b.tz

(***************************************************************************)
(* fetch_all_sources: merge (app.py:240-251)                               *)
(***************************************************************************)
\* app.py:243-246  sha256 is taken as injective
DedupKey(it) ==
    IF it.contentUrl # 0
    THEN [url |-> it.contentUrl, title |-> <<>>]
    ELSE [url |-> 0, title |-> safe_title(it)]

\* app.py:248  dt > safe_date(dedup[link].get("datePublished"))
Later_Ge(dt, old) == dt.t >= old.t

Later_Lt(dt, old) == dt.t < old.t

Later(dt, old) == dt.t > old.t

\* position of key k in the dict d (insertion ordered), 0 when absent
Find(d, k) ==
    LET S == {p \in 1..Len(d) : d[p].key = k}
    IN IF S = {} THEN 0 ELSE CHOOSE p \in S : TRUE

\* app.py:243-249  one iteration of the loop, on the dict d built so far
MergeStep(d, it, now) ==
    IF d.raised THEN d
    ELSE LET link == DedupKey(it)
             dt   == safe_date(it.datePublished, now)
             pos  == Find(d.val, link)
         IN IF pos = 0
            THEN Ok(Append(d.val, [key |-> link, item |-> it]))
            ELSE LET old == safe_date(d.val[pos].item.datePublished, now)
                 IN IF ~Comparable(dt, old) THEN Raised
                    ELSE IF Later(dt, old)
                         THEN Ok([d.val EXCEPT ![pos].item = it])
                         ELSE d

RECURSIVE MergeRange(_, _, _, _, _)
\* app.py:242  for it in combined: items lo..hi in order, starting from d
\* (the range is halved to keep the evaluation shallow)
MergeRange(items, lo, hi, d, now) ==
    IF lo > hi THEN d
    ELSE IF lo = hi THEN MergeStep(d, items[lo], now)
    ELSE LET mid == (lo + hi) \div 2
         IN MergeRange(items, mid + 1, hi, MergeRange(items, lo, mid, d, now), now)

\* app.py:241-249
Merge(items, now) == MergeRange(items, 1, Len(items), Ok(<<>>), now)

\* app.py:251  list(dedup.values())
Values(d) == [p \in 1..Len(d) |-> d[p].item]

(***************************************************************************)
(* fetch_all_sources: sort, recency filter, floor, cap (app.py:253-267)    *)
(***************************************************************************)
\* The place of items[i] after a stable sort, latest first: behind every
\* later item, and behind the equally dated items that precede it
\* (list.sort is stable, also with reverse=True).
Rank(items, i, now) ==
    LET k(j) == safe_date(items[j].datePublished, now).t
    IN 1 + Cardinality({j \in 1..Len(items) :
                           k(j) > k(i) \/ (k(j) = k(i) /\ j < i)})

StableDesc(items, now) ==
    LET rank == [i \in 1..Len(items) |-> Rank(items, i, now)]
    IN [p \in 1..Len(items) |-> items[CHOOSE i \in 1..Len(items) : rank[i] = p]]

\* app.py:254, 264  items.sort(key=safe_date, reverse=True); sorting two or
\* more keys raises when naive and aware datetimes are mixed
SortDesc(items, now) ==
    IF \E i, j \in 1..Len(items) :
          ~Comparable(safe_date(items[i].datePublished, now),
                      safe_date(items[j].datePublished, now))
    THEN Raised
    ELSE Ok(StableDesc(items, now))

\* app.py:257-258  the cutoff is aware: a naive date raises
RecentOnly(items, now) ==
    LET cutoff == [tz |-> TRUE, t |-> now - RECENT_DAYS]
    IN IF \E i \in 1..Len(items) :
             ~Comparable(safe_date(items[i].datePublished, now), cutoff)
       THEN Raised
       ELSE Ok(SelectSeq(items, LAMBDA i : safe_date(i.datePublished, now).t >= cutoff.t))

\* app.py:261
TooFew_Le(items) == Len(items) <= MIN_ITEMS

TooFew(items) == Len(items) < MIN_ITEMS

\* app.py:267  items[:100]
Cap_None(items) == items

Cap(items) == SubSeq(items, 1, IF Len(items) < FEED_CAP THEN Len(items) ELSE FEED_CAP)

\* app.py:218-267 from the merge on: [raised, dedup, items]
fetch_all_sources(items, now) ==
    LET m == Merge(items, now)
        failed == [raised |-> TRUE, dedup |-> m, items |-> <<>>]
    IN IF m.raised THEN failed
       ELSE LET sorted == SortDesc(Values(m.val), now)
            IN IF sorted.raised THEN failed
               ELSE LET recent == RecentOnly(sorted.val, now)
                    IN IF recent.raised THEN failed
                       ELSE IF TooFew(recent.val)
                            THEN [raised |-> FALSE, dedup |-> m,
                                  items |-> Cap(SortDesc(Values(m.val), now).val)]
                            ELSE [raised |-> FALSE, dedup |-> m,
                                  items |-> Cap(recent.val)]

(***************************************************************************)
(* build_feed (app.py:272-341)                                             *)
(***************************************************************************)
NoGuid == 0

\* str.lower() on the field names the inputs use
LowerName(n) ==
    CASE n = "Texto" -> "texto"
      [] n = "BODY"  -> "body"
      [] OTHER       -> n

RECURSIVE ContentFrom(_, _, _)
\* app.py:292-299  the text of the last body field that has any
ContentFrom(fields, i, content) ==
    IF i > Len(fields) THEN content
    ELSE ContentFrom(fields, i + 1,
                     IF /\ LowerName(fields[i].name) \in {"texto", "conteudo", "body"}
                        /\ fields[i].data # <<>>
                     THEN fields[i].data
                     ELSE content)

LowerChar(c) ==
    CASE c = "A" -> "a"
      [] c = "B" -> "b"
      [] c = "C" -> "c"
      [] c = "F" -> "f"
      [] c = "S" -> "s"
      [] OTHER   -> c

\* str.lower()
lower_Identity(text) == text

lower(text) == [i \in 1..Len(text) |-> LowerChar(text[i])]

\* k in text
Contains(k, text) ==
    \E off \in 0..(Len(text) - Len(k)) :
        \A i \in 1..Len(k) : text[off + i] = k[i]

\* app.py:308-317  include_ok and exclude_ok
KeywordsOk(title, content, include, exclude) ==
    LET full_text  == title \o <<" ">> \o content
        include_ok == IF include # <<>>
                      THEN \E k \in 1..Len(include) :
                              Contains(lower(include[k]), lower(full_text))
                      ELSE TRUE
        exclude_ok == IF exclude # <<>>
                      THEN ~\E k \in 1..Len(exclude) :
                              Contains(lower(exclude[k]), lower(full_text))
                      ELSE TRUE
    IN include_ok /\ exclude_ok

\* app.py:318-324
Entry(title, link, content, dt) ==
    [title |-> title, link |-> link,
     description |-> IF content # <<>> THEN content ELSE title,
     guid |-> link, pubDate |-> dt.t]

\* app.py:333-338
Sentinel(now) ==
    [title |-> SemNoticias, link |-> NEWS_PAGE, description |-> NenhumItem,
     guid |-> NoGuid, pubDate |-> now]

\* app.py:284-286, 292-299  title, link and content of an item
TitleOf(item)   == safe_title(item)
LinkOf(item)    == IF item.contentUrl # 0 THEN item.contentUrl ELSE NEWS_PAGE
ContentOf(item) == ContentFrom(item.contentFields, 1, <<>>)

\* app.py:286, 317  the item gets an entry
Added(item, include, exclude) ==
    /\ ~(TitleOf(item) = <<>> \/ LinkOf(item) = 0)
    /\ KeywordsOk(TitleOf(item), ContentOf(item), include, exclude)

\* app.py:280-338  the entries of the feed for news_items: one per item
\* that is not skipped, in order, or the sentinel when there is none
Render(items, now, include, exclude) ==
    LET kept  == SelectSeq(items, LAMBDA item : Added(item, include, exclude))
        added == [p \in 1..Len(kept) |->
                    Entry(TitleOf(kept[p]), LinkOf(kept[p]), ContentOf(kept[p]),
                          safe_date(kept[p].datePublished, now))]
    IN IF Len(added) = 0 THEN <<Sentinel(now)>> ELSE added

(***************************************************************************)
(* SpecPipe: build_feed applied to bounded inputs                          *)
(***************************************************************************)
MaxItems       == 3      \* merge inputs: up to this many items
MaxFilterItems == 1      \* keyword inputs: up to this many items
Today          == 400    \* the clock, in days

SeqsUpTo(S, n) == UNION {[1..k -> S] : k \in 0..n}

\* Items that collide: one URL or none, two titles, dates on both sides of
\* now and of the cutoff, with and without offset.
MergeItems ==
    {Item(TitleStr(tx), u, d, <<>>) :
        tx \in {<<"a">>, <<"b">>}, u \in {0, 1},
        d \in {NoDate, Aware(Today - RECENT_DAYS - 1), Aware(Today),
               Aware(Today + 1), Naive(Today - 1)}}

\* Lists around MIN_ITEMS and FEED_CAP: `old` items older than the cutoff,
\* then `recent` items inside the window (the oldest exactly on the cutoff),
\* all with distinct URLs, then `dup` undated items repeating URL 1.
BigItem(p, old) ==
    Item(TitleStr(<<"a">>), p,
         IF p <= old THEN Aware(Today - RECENT_DAYS - 1 - (p % 3))
         ELSE IF p = old + 1 THEN Aware(Today - RECENT_DAYS)
         ELSE Aware(Today - ((p * 7) % RECENT_DAYS)),
         <<>>)

BigList(recent, old, dup) ==
    [p \in 1..(old + recent + dup) |->
        IF p <= old + recent THEN BigItem(p, old)
        ELSE Item(TitleStr(<<"b">>), 1, NoDate, <<>>)]

BigShapes ==
    {<<r, o, d>> : r \in {MIN_ITEMS - 1, MIN_ITEMS, MIN_ITEMS + 1},
                   o \in {0, 1, 3}, d \in {0, 1}}
    \cup {<<FEED_CAP - 1, 0, 0>>, <<FEED_CAP, 2, 0>>, <<FEED_CAP + 1, 0, 1>>,
          <<MIN_ITEMS - 2, FEED_CAP, 0>>, <<MIN_ITEMS, FEED_CAP - MIN_ITEMS + 1, 0>>}

BigInputs == {BigList(sh[1], sh[2], sh[3]) : sh \in BigShapes}

Field(name, data) == [name |-> name, data |-> data]

FilterItems ==
    {Item(t, 0, NoDate, f) :
        t \in {TitleStr(<<>>), TitleStr(<<"A", "b">>), TitleStr(<<"c">>),
               TitleDict(<<>>), TitleAbsent},
        f \in {<<>>, <<Field("Texto", <<"a">>)>>, <<Field("imagem", <<"a">>)>>,
               <<Field("body", <<"B">>), Field("texto", <<>>)>>}}

KeywordLists ==
    {<<>>, <<<<"a">>>>, <<<<"B">>>>, <<<<"a", "b">>, <<"C">>>>, <<<<>>>>,
     <<<<"b", " ">>>>}

\* The scenario of the keyword filter: three titles, one include term, one
\* exclude term.
SaudeEEsporte == <<"S","a","ú","d","e"," ","e"," ","e","s","p","o","r","t","e">>
SaudeNaEscola == <<"S","a","ú","d","e"," ","n","a"," ","e","s","c","o","l","a">>
FestivalDeCultura ==
    <<"F","e","s","t","i","v","a","l"," ","d","e"," ","c","u","l","t","u","r","a">>
ScenarioItems ==
    <<Item(TitleStr(SaudeEEsporte), 0, NoDate, <<>>),
      Item(TitleStr(SaudeNaEscola), 0, NoDate, <<>>),
      Item(TitleStr(FestivalDeCultura), 0, NoDate, <<>>)>>
ScenarioInclude == << <<"s","a","ú","d","e">> >>
ScenarioExclude == << <<"e","s","p","o","r","t","e">> >>

InitPipe ==
    /\ CACHE = [feed |-> None, ts |-> 0]
    /\ disk = None
    /\ clock = 0
    /\ log = <<>>
    /\ IdleConc
    /\ utcnow = Today
    /\ ppc = "input"
    /\ dedup = Ok(<<>>)
    /\ news_items = Ok(<<>>)
    /\ feedEntries = Ok(<<>>)
    /\ \/ /\ combined \in SeqsUpTo(MergeItems, MaxItems)
          /\ INCLUDE_KEYWORDS = <<>>
          /\ EXCLUDE_KEYWORDS = <<>>
       \/ /\ combined \in BigInputs
          /\ INCLUDE_KEYWORDS = <<>>
          /\ EXCLUDE_KEYWORDS = <<>>
       \/ /\ combined \in SeqsUpTo(FilterItems, MaxFilterItems)
          /\ INCLUDE_KEYWORDS \in KeywordLists
          /\ EXCLUDE_KEYWORDS \in KeywordLists
       \/ /\ combined = ScenarioItems
          /\ INCLUDE_KEYWORDS = ScenarioInclude
          /\ EXCLUDE_KEYWORDS = ScenarioExclude

\* app.py:272-341  build_feed(), fetch_all_sources() included
build_feed ==
    /\ ppc = "input"
    /\ LET f == fetch_all_sources(combined, utcnow)
       IN /\ dedup' = f.dedup
          /\ news_items' = [raised |-> f.raised, val |-> f.items]
          /\ feedEntries' = IF f.raised THEN Raised
                            ELSE Ok(Render(f.items, utcnow, INCLUDE_KEYWORDS,
                                           EXCLUDE_KEYWORDS))
    /\ ppc' = "built"
    /\ UNCHANGED <<utcnow, combined, INCLUDE_KEYWORDS, EXCLUDE_KEYWORDS>>
    /\ UNCHANGED cacheVars
    /\ UNCHANGED concVars

NextPipe == build_feed

SpecPipe == InitPipe /\ [][NextPipe]_vars

(***************************************************************************)
(* Claims on the pipeline (checked under SpecPipe).  They speak of what a  *)
(* call returns: a call that raises returns nothing.                       *)
(***************************************************************************)
Built == ppc = "built"

\* The date an item counts with: its own, or now when it has none.
DateOf(it) == IF it.datePublished.kind = "none" THEN utcnow ELSE it.datePublished.t

\* The key an item is merged under: its contentUrl when it has one, else
\* (the hash of) its title.
KeyOf(it) ==
    [url |-> it.contentUrl,
     title |-> IF it.contentUrl # 0 THEN <<>> ELSE safe_title(it)]

SameKey(k) == {i \in 1..Len(combined) : KeyOf(combined[i]) = k}

Latest(k) == {i \in SameKey(k) : \A j \in SameKey(k) : DateOf(combined[i]) >= DateOf(combined[j])}

Smallest(S) == CHOOSE i \in S : \A j \in S : i <= j
Largest(S)  == CHOOSE i \in S : \A j \in S : i >= j

C6_LastSeenWins ==
    (Built /\ ~dedup.raised) =>
        \A p \in 1..Len(dedup.val) :
            dedup.val[p].item = combined[Largest(Latest(dedup.val[p].key))]

\* C6 as amended: among the items of one key that carry the latest date,
\* the one that comes first in the input is the one retained.
C6_FirstSeenWins ==
    (Built /\ ~dedup.raised) =>
        \A p \in 1..Len(dedup.val) :
            dedup.val[p].item = combined[Smallest(Latest(dedup.val[p].key))]

C6_Witness ==
    /\ Built /\ ~dedup.raised
    /\ Len(combined) = 2 /\ Len(dedup.val) = 1
    /\ combined[1].datePublished = Aware(Today)
    /\ combined[2].datePublished = Aware(Today)
    /\ combined[1] # combined[2]
    /\ dedup.val[1].item = combined[1]

\* The filter as the specification words it: no include term, or one of
\* them within title + " " + content whatever the case of the letters; and
\* no exclude term within it.
SameLetters(a, b) ==
    /\ Len(a) = Len(b)
    /\ \A i \in 1..Len(a) :
         \/ a[i] = b[i]
         \/ <<a[i], b[i]>> \in {<<"A","a">>, <<"a","A">>, <<"B","b">>, <<"b","B">>,
                                <<"C","c">>, <<"c","C">>, <<"F","f">>, <<"f","F">>,
                                <<"S","s">>, <<"s","S">>}

Within(term, text) ==
    \E from \in 1..(Len(text) + 1) :
        /\ from + Len(term) - 1 <= Len(text)
        /\ SameLetters(term, SubSeq(text, from, from + Len(term) - 1))

TextOf(it) == safe_title(it) \o <<" ">> \o ContentFrom(it.contentFields, 1, <<>>)

PassesFilter(it) ==
    /\ \/ INCLUDE_KEYWORDS = <<>>
       \/ \E k \in 1..Len(INCLUDE_KEYWORDS) : Within(INCLUDE_KEYWORDS[k], TextOf(it))
    /\ \/ EXCLUDE_KEYWORDS = <<>>
       \/ ~\E k \in 1..Len(EXCLUDE_KEYWORDS) : Within(EXCLUDE_KEYWORDS[k], TextOf(it))

\* The entries of the feed that stand for items (the sentinel has no guid).
ItemEntries == SelectSeq(feedEntries.val, LAMBDA e : e.guid # NoGuid)
Sentinels   == SelectSeq(feedEntries.val, LAMBDA e : e.guid = NoGuid)

\* the entries of the feed stand for exactly the items kept, in order
EntriesFor(kept) ==
    /\ Len(ItemEntries) = Len(kept)
    /\ \A p \in 1..Len(kept) :
         /\ ItemEntries[p].title = safe_title(kept[p])
         /\ ItemEntries[p].link =
              (IF kept[p].contentUrl # 0 THEN kept[p].contentUrl ELSE NEWS_PAGE)
         /\ ItemEntries[p].pubDate = DateOf(kept[p])

InScenario ==
    /\ combined = ScenarioItems
    /\ INCLUDE_KEYWORDS = ScenarioInclude
    /\ EXCLUDE_KEYWORDS = ScenarioExclude

ScenarioHolds ==
    InScenario => /\ Len(ItemEntries) = 1
                  /\ ItemEntries[1].title = SaudeNaEscola
                  /\ Len(Sentinels) = 0

\* C7: a feed that build_feed returns has at least 1 and at most 100
\* entries; fetch_all_sources hands over at most 100 items; the feed holds
\* the sentinel entry, once, exactly when no item got an entry, which is
\* when there is no item or each one has an empty title or fails the
\* keyword filter.
C7_BetweenOneAndCap ==
    (Built /\ ~feedEntries.raised) =>
        /\ Len(feedEntries.val) >= 1
        /\ Len(feedEntries.val) <= 100
        /\ Len(news_items.val) <= 100
        /\ Len(Sentinels) = (IF Len(ItemEntries) = 0 THEN 1 ELSE 0)
        /\ \A p \in 1..Len(Sentinels) : Sentinels[p].title = SemNoticias
        /\ (Len(ItemEntries) = 0) <=>
              (\A p \in 1..Len(news_items.val) :
                  \/ safe_title(news_items.val[p]) = <<>>
                  \/ ~PassesFilter(news_items.val[p]))

C7_Witness ==
    /\ Built /\ ~feedEntries.raised
    /\ Len(dedup.val) = 101
    /\ Len(news_items.val) = 100
    /\ Len(feedEntries.val) = 100
    /\ Len(Sentinels) = 0

=============================================================================
